---- MODULE Spec2Model ----
(***************************************************************************)
(* A model of makegrind's dependency-graph engine:                         *)
(*   node.py   - Node / TargetNode / BuildNode (attribute bag with memoised *)
(*               start, end, elapsed, recipe, elapsed_recipe) and NodeInfo  *)
(*   graphs.py - MakeGrindDiGraph (cached reduced / entry, heaviest_path),  *)
(*               TargetDiGraph and BuildDiGraph (ingestion of a trace)      *)
(*                                                                         *)
(* Encoding.  A Python dict is a function whose DOMAIN is its key set.      *)
(* A target key "pid:name" is the pair <<pid, name>> (pids are integers,    *)
(* so the formatted string determines the pair).  A POSIX timestamp is a    *)
(* natural number, JSON null is Null, datetime.fromtimestamp(t) is Dt(t),   *)
(* a timedelta of d seconds is Td(d).  networkx is a library: its           *)
(* add_node / add_edge / transitive_reduction / topological_sort are        *)
(* modelled by what they are documented to do; iteration orders that        *)
(* depend on hash seeds or on the library version are nondeterministic.     *)
(***************************************************************************)
EXTENDS Integers, Sequences, FiniteSets, TLC

\* ---------------------------------------------------------------- bounds
MaxTime == 2
MaxDeps == 1

Names == {"a", "b"}
Pids == {1, 2, 3}
Times == 0..MaxTime

\* JSON null as an attribute value (timestamps are >= 0)
Null == -1

VARIABLES
    \* ---- one TargetNode on its own (node.py)
    attrib,      \* Node.attrib
    cache,       \* the memoised fields named by TargetNode.__cached__
    nret,        \* what the last operation on the node returned
    dropped,     \* history: the memoised elapsed the last clear() discarded
    \* ---- the two graphs (graphs.py)
    trace,       \* the process records of the trace being ingested
    order,       \* pids in the order add_nodes_from_build was called
    ingest,      \* "flat" | "nested": how the trace was handed over
    pnodes,      \* BuildDiGraph: key -> BuildNode.attrib
    pedges,      \* BuildDiGraph: set of <<parent key, child key>>
    tnodes,      \* TargetDiGraph: key -> TargetNode.attrib
    tedges,      \* TargetDiGraph: set of <<target key, dependency key>>
    t_reduced,   \* TargetDiGraph._reduced
    t_entry,     \* TargetDiGraph._entry
    p_entry,     \* BuildDiGraph._entry
    ret          \* what the last graph operation returned

nodeVars == <<attrib, cache, nret, dropped>>
graphVars == <<trace, order, ingest, pnodes, pedges, tnodes, tedges,
               t_reduced, t_entry, p_entry, ret>>
vars == <<attrib, cache, nret, dropped, trace, order, ingest, pnodes, pedges, tnodes,
          tedges, t_reduced, t_entry, p_entry, ret>>

\* ------------------------------------------------------- Python values
NoneV == [tag |-> "None"]
FalseV == [tag |-> "False"]
Dt(t) == [tag |-> "datetime", t |-> t]
Td(d) == [tag |-> "timedelta", d |-> d]

\* dict.get(key) with None for a missing key, as the numbers of the model
Get(a, k) == IF k \in DOMAIN a THEN a[k] ELSE Null

\* dict.__setitem__
DictSet(a, k, v) == [x \in DOMAIN a \cup {k} |-> IF x = k THEN v ELSE a[x]]

\* dict.update(b)
DictUpdate(a, b) == [x \in DOMAIN a \cup DOMAIN b |-> IF x \in DOMAIN b THEN b[x] ELSE a[x]]

EmptyDict == [x \in {} |-> 0]

\* ------------------------------------------------------------- node.py
\* The state Node.clear() leaves a node's memoised fields in, ignoring
\* what was there before (a plausible slip: clear() that clears nothing).
KeepCache(c) == c

\* the memoised fields after Node.__init__: every name of
\* TargetNode.__cached__ is None
FreshCache == [elapsed |-> NoneV, start |-> NoneV, end |-> NoneV,
               recipe |-> NoneV, elapsed_recipe |-> NoneV]

\* Node.clear: the memoised fields it leaves behind
ClearCache(c) == FreshCache

\* Node.start / Node.end / TargetNode.recipe: one memoised datetime field
StampProp(a, c, k) ==
    IF c[k] # NoneV THEN c
    ELSE IF Get(a, k) # Null THEN [c EXCEPT ![k] = Dt(a[k])]
    ELSE [c EXCEPT ![k] = FalseV]

\* Node.elapsed: the cache after the read; the value read is its .elapsed
ElapsedProp(a, c) ==
    IF c.elapsed # NoneV THEN c
    ELSE LET c1 == StampProp(a, c, "end")
         IN IF c1.end = FalseV THEN [c1 EXCEPT !.elapsed = Td(0)]
            ELSE LET c2 == StampProp(a, c1, "start")
                 IN IF c2.start = FalseV THEN [c2 EXCEPT !.elapsed = Td(0)]
                    ELSE [c2 EXCEPT !.elapsed = Td(c2.end.t - c2.start.t)]

\* TargetNode.elapsed_recipe
ElapsedRecipeProp(a, c) ==
    IF c.elapsed_recipe # NoneV THEN c
    ELSE LET c1 == StampProp(a, c, "end")
         IN IF c1.end = FalseV THEN [c1 EXCEPT !.elapsed_recipe = Td(0)]
            ELSE LET c2 == StampProp(a, c1, "recipe")
                 IN IF c2.recipe = FalseV THEN [c2 EXCEPT !.elapsed_recipe = Td(0)]
                    ELSE [c2 EXCEPT !.elapsed_recipe = Td(c2.end.t - c2.recipe.t)]

\* Node.valid: every required attribute answers hasattr
Valid(a, required) == \A p \in required : p \in DOMAIN a

TargetRequired == {"name", "pid"}
BuildRequired == {"pid", "directory"}

\* ---- the operations on one node
StampKeys == {"start", "end", "recipe"}

\* Node.__setitem__: clear(), then store
SetItem(k, v) ==
    /\ cache' = ClearCache(cache)
    /\ attrib' = DictSet(attrib, k, v)
    /\ nret' = [op |-> "setitem"]
    /\ dropped' = cache.elapsed
    /\ UNCHANGED graphVars

\* Node.__delitem__: clear(), then self.__attrib, a name no Node has
DelItem(k) ==
    /\ k \in DOMAIN attrib
    /\ cache' = ClearCache(cache)
    /\ attrib' = attrib
    /\ nret' = [op |-> "delitem", error |-> "AttributeError"]
    /\ dropped' = cache.elapsed
    /\ UNCHANGED graphVars

ReadStamp(k) ==
    /\ cache' = StampProp(attrib, cache, k)
    /\ nret' = [op |-> k, val |-> cache'[k]]
    /\ UNCHANGED <<attrib, dropped>>
    /\ UNCHANGED graphVars

ReadElapsed ==
    /\ cache' = ElapsedProp(attrib, cache)
    /\ nret' = [op |-> "elapsed", val |-> cache'.elapsed]
    /\ UNCHANGED <<attrib, dropped>>
    /\ UNCHANGED graphVars

ReadElapsedRecipe ==
    /\ cache' = ElapsedRecipeProp(attrib, cache)
    /\ nret' = [op |-> "elapsed_recipe", val |-> cache'.elapsed_recipe]
    /\ UNCHANGED <<attrib, dropped>>
    /\ UNCHANGED graphVars

\* ----------------------------------------------------------- graphs.py
\* dict without one key (dict.pop)
Without(a, k) == [x \in DOMAIN a \ {k} |-> a[x]]

\* TargetNode.nodekey: "{}:{}".format(target["pid"], target["name"])
TargetNodekey(t) == <<t["pid"], t["name"]>>

\* BuildNode.nodekey: "{}".format(target["pid"])
BuildNodekey(b) == b["pid"]

\* networkx add_node(key) with no attributes: a node that is there is kept
AddNode(nodes, k) ==
    IF k \in DOMAIN nodes THEN nodes ELSE DictSet(nodes, k, EmptyDict)

RECURSIVE AddNodes(_, _)
AddNodes(nodes, ks) ==
    IF ks = {} THEN nodes
    ELSE LET k == CHOOSE x \in ks : TRUE
         IN AddNodes(AddNode(nodes, k), ks \ {k})

\* a graph: n its nodes (key -> attributes), e its edges
EmptyGraph == [n |-> EmptyDict, e |-> {}]

\* networkx add_edge(u, v): both ends become nodes
AddEdge(g, u, v) == [n |-> AddNodes(g.n, {u, v}), e |-> g.e \cup {<<u, v>>}]

\* the node update of add_target that replaces the attributes instead of
\* merging them into the node that is there
ReplaceAttrs(old, new) == new

\* self.nodes[key].update(target)
UpdateAttrs(old, new) == DictUpdate(old, new)

RECURSIVE AddDepEdgesReversed(_, _, _, _)
\* a loop over depends that draws each edge from the dependency to the
\* target
AddDepEdgesReversed(g, key, pid, deps) ==
    IF deps = {} THEN g
    ELSE LET d == CHOOSE x \in deps : TRUE
         IN AddDepEdgesReversed(AddEdge(g, TargetNodekey([pid |-> pid, name |-> d]), key),
                                key, pid, deps \ {d})

RECURSIVE AddDepEdges(_, _, _, _)
\* TargetDiGraph.add_target, the loop over depends
AddDepEdges(g, key, pid, deps) ==
    IF deps = {} THEN g
    ELSE LET d == CHOOSE x \in deps : TRUE
         IN AddDepEdges(AddEdge(g, key, TargetNodekey([pid |-> pid, name |-> d])),
                        key, pid, deps \ {d})

\* TargetDiGraph.add_target
AddTarget(g, target) ==
    LET key == TargetNodekey(target)
        depends == IF "depends" \in DOMAIN target THEN target["depends"] ELSE {}
        attrs == Without(target, "depends")
        n1 == AddNode(g.n, key)
        n2 == [n1 EXCEPT ![key] = UpdateAttrs(n1[key], attrs)]
    IN AddDepEdges([n |-> n2, e |-> g.e], key, target["pid"], depends)

RECURSIVE TargetsAddNodesFromBuild(_, _, _)
\* TargetDiGraph.add_nodes_from_build
TargetsAddNodesFromBuild(g, build, targets) ==
    IF targets = {} THEN g
    ELSE LET t == CHOOSE x \in targets : TRUE
             t2 == DictSet(DictSet(t, "pid", build["pid"]), "directory", build["directory"])
         IN TargetsAddNodesFromBuild(AddTarget(g, t2), build, targets \ {t})

\* BuildNode.entry: the keys of the process's entry targets
BuildEntry(build) ==
    {TargetNodekey([pid |-> build["pid"], name |-> ent]) : ent \in build["entry"]}

RECURSIVE AddParentLoop(_, _, _)
\* TargetDiGraph.add_parent_edges, the loop over build.entry
AddParentLoop(g, pkey, entries) ==
    IF entries = {} THEN g
    ELSE LET entry == CHOOSE x \in entries : TRUE
             g1 == AddEdge(g, pkey, entry)
             g2 == [g1 EXCEPT !.n[pkey] = DictSet(g1.n[pkey], "recursive", TRUE)]
         IN AddParentLoop(g2, pkey, entries \ {entry})

\* TargetDiGraph.add_parent_edges
AddParentEdges(g, build, parent) ==
    AddParentLoop(g, TargetNodekey([pid |-> parent["pid"], name |-> parent["target"]]),
                  BuildEntry(build))

\* both graphs: b the BuildDiGraph, t its TargetDiGraph (self.targets)
EmptyGraphs == [b |-> EmptyGraph, t |-> EmptyGraph]

\* BuildDiGraph.add_nodes_from_build
AddNodesFromBuild(G, build) ==
    LET targets == IF "targets" \in DOMAIN build THEN build["targets"] ELSE {}
        attrs == Without(build, "targets")
        key == BuildNodekey(attrs)
        b0 == AddNode(G.b.n, key)
        b1 == [n |-> [b0 EXCEPT ![key] = DictUpdate(b0[key], attrs)], e |-> G.b.e]
        t1 == TargetsAddNodesFromBuild(G.t, b1.n[key], targets)
    IN IF "parent" \in DOMAIN attrs
       THEN [b |-> AddEdge(b1, BuildNodekey(attrs["parent"]), key),
             t |-> AddParentEdges(t1, b1.n[key], attrs["parent"])]
       ELSE [b |-> b1, t |-> t1]

\* ------------------------------------------------------------ the trace
\* (ingestion input: one record per build-process invocation, with its
\* targets; a universe u bounds the names, the timestamps, the dependency
\* lists, the entry lists and the number of processes of a trace)

\* the target records named n
TargetDicts(u, n) ==
    {DictUpdate(DictUpdate([name |-> n], tm), [depends |-> d]) :
        tm \in u.stamps, d \in u.depends}

\* the "targets" lists of a record: at most one record per name
TargetLists(u) ==
    UNION {{ {f[n] : n \in D} :
               f \in {h \in [D -> UNION {TargetDicts(u, n) : n \in D}] :
                        \A n \in D : h[n]["name"] = n} } :
           D \in u.declared}

Directory(p) == IF p = 1 THEN "/src" ELSE "/src/sub"

\* the records of process p: the root has no parent, a sub-build names the
\* target of an earlier process that invoked it
ProcessRecords(u, p) ==
    LET base == {[pid |-> p, directory |-> Directory(p), entry |-> en, targets |-> tl] :
                    en \in u.entry, tl \in TargetLists(u)}
    IN IF p = 1 THEN base
       ELSE {DictSet(r, "parent", [pid |-> q, target |-> n]) :
                r \in base, q \in 1..(p - 1), n \in u.names}

RECURSIVE TracesUpTo(_, _)
\* the traces of processes 1..k
TracesUpTo(u, k) ==
    IF k = 0 THEN {EmptyDict}
    ELSE {DictSet(tr, k, r) : tr \in TracesUpTo(u, k - 1), r \in ProcessRecords(u, k)}

\* a trace: the records of processes 1..k, k >= 1
TracesOf(u) == UNION {TracesUpTo(u, k) : k \in 1..u.pids}

\* every timestamp of a target, its recipe start missing, or no timestamp
TimeProfiles ==
    {EmptyDict, [start |-> 0, end |-> 1], [start |-> 0, recipe |-> 1, end |-> MaxTime]}

AllStamps == [start |-> 0, recipe |-> 0, end |-> MaxTime]

\* dependency lists of up to m of the names
DepSets(names, m) == {d \in SUBSET names : Cardinality(d) <= m}

\* the entry lists [], [a], [a, b]
EntryLists == {{}, {"a"}, {"a", "b"}}

\* two processes, two names: every shape of dependencies with one shape of
\* timestamps, and every shape of timestamps without dependencies
TracesTwo ==
    TracesOf([names |-> Names, pids |-> 2, declared |-> SUBSET Names,
              stamps |-> {AllStamps}, depends |-> DepSets(Names, MaxDeps),
              entry |-> EntryLists])
    \cup
    TracesOf([names |-> Names, pids |-> 2, declared |-> SUBSET Names,
              stamps |-> TimeProfiles, depends |-> {{}},
              entry |-> EntryLists])

\* three processes (a sub-build of a sub-build, or two sub-builds), one name
TracesThree ==
    TracesOf([names |-> {"a"}, pids |-> 3, declared |-> SUBSET {"a"},
              stamps |-> {AllStamps}, depends |-> DepSets({"a"}, MaxDeps),
              entry |-> {{}, {"a"}}])

Traces == TracesTwo \cup TracesThree

\* one process, three names, dependency lists long enough for an edge that
\* a longer path implies
TracesQuery ==
    TracesOf([names |-> {"a", "b", "c"}, pids |-> 1, declared |-> {{"a", "b", "c"}},
              stamps |-> TimeProfiles, depends |-> DepSets({"a", "b", "c"}, MaxDeps + 1),
              entry |-> {{"a"}}])

\* two processes, one name and an undeclared dependency
TracesSmall ==
    TracesOf([names |-> Names, pids |-> 2, declared |-> SUBSET {"a"},
              stamps |-> {AllStamps}, depends |-> DepSets(Names, MaxDeps),
              entry |-> {{}, {"a"}}])

\* ------------------------------------------------ graph algorithms
Succ(e, u) == {x[2] : x \in {y \in e : y[1] = u}}

RECURSIVE Reach(_, _)
\* the nodes reachable from the set S by one or more edges
Reach(e, S) ==
    LET next == S \cup UNION {Succ(e, u) : u \in S}
    IN IF next = S THEN S ELSE Reach(e, next)

\* networkx descendants(G, u)
Descendants(e, u) == Reach(e, Succ(e, u))

Ancestors(e, v) == {u \in {x[1] : x \in e} : v \in Descendants(e, u)}

\* networkx is_directed_acyclic_graph
IsDAG(g) == \A u \in DOMAIN g.n : u \notin Descendants(g.e, u)

\* networkx dag.transitive_reduction of an acyclic graph: a new graph with
\* the same node keys; of each node's successors, those that are not a
\* descendant of another successor
TransitiveReduction(g) ==
    [n |-> DOMAIN g.n,
     e |-> {x \in g.e : \A w \in Succ(g.e, x[1]) : x[2] \notin Descendants(g.e, w)}]

\* MakeGrindDiGraph.reduced, a cache miss (the graph is acyclic)
ComputeReduced(g) == TransitiveReduction(g)

\* MakeGrindDiGraph.reduced: the outcome of one read, as the cache it
\* leaves and what the caller gets
ReducedProp(g, cached) ==
    IF cached # NoneV THEN [cache |-> cached, val |-> cached]
    ELSE IF IsDAG(g)
    THEN [cache |-> ComputeReduced(g), val |-> ComputeReduced(g)]
    ELSE [cache |-> NoneV, error |-> "NetworkXError"]

RECURSIVE Perms(_)
\* the orderings of a finite set
Perms(S) ==
    IF S = {} THEN {<<>>}
    ELSE UNION {{<<x>> \o q : q \in Perms(S \ {x})} : x \in S}

\* the nodes dag.topological_sort yields before it gives up on a cycle
Sortable(g) ==
    {v \in DOMAIN g.n : \A u \in Ancestors(g.e, v) \cup {v} : u \notin Descendants(g.e, u)}

\* dag.topological_sort: the orders it may yield the nodes in (which one
\* depends on insertion order and on the networkx version)
TopologicalSorts(g) ==
    {q \in Perms(Sortable(g)) :
        \A i, j \in 1..Len(q) : <<q[i], q[j]>> \in g.e => i < j}

\* the loop of MakeGrindDiGraph.entry over one order: the first valid node
FirstValid(g, q, required) ==
    LET hits == {i \in 1..Len(q) : Valid(g.n[q[i]], required)}
    IN IF hits = {} THEN NoneV
       ELSE [key |-> q[CHOOSE i \in hits : \A j \in hits : i <= j]]

\* what the else branch of the entry loop raises: graphs.py names
\* mg_exceptions.TargetNotFoundError, and binds no mg_exceptions
EntryLoopElse == "NameError"

\* MakeGrindDiGraph.entry: the possible outcomes of one read
EntryProp(g, cached, required) ==
    IF cached # NoneV
    THEN {[cache |-> cached, key |-> cached.key, val |-> g.n[cached.key]]}
    ELSE {LET f == FirstValid(g, q, required)
          IN IF f # NoneV THEN [cache |-> f, key |-> f.key, val |-> g.n[f.key]]
             ELSE IF IsDAG(g) THEN [cache |-> NoneV, error |-> EntryLoopElse]
             ELSE [cache |-> NoneV, error |-> "NetworkXUnfeasible"] :
          q \in TopologicalSorts(g)}

\* self.nodes[x].elapsed, in seconds
ElapsedOf(a) == ElapsedProp(a, FreshCache).elapsed.d

\* a heaviest_child that takes a child of least elapsed time
LightestChild(g, r, u) ==
    {v \in Succ(r.e, u) : \A w \in Succ(r.e, u) : ElapsedOf(g.n[v]) <= ElapsedOf(g.n[w])}

\* MakeGrindDiGraph.heaviest_child over the reduced graph r: max() keeps the
\* first maximal successor it meets, and the successors of the reduced
\* graph come in the order of a Python set
HeaviestChild(g, r, u) ==
    {v \in Succ(r.e, u) : \A w \in Succ(r.e, u) : ElapsedOf(g.n[v]) >= ElapsedOf(g.n[w])}

RECURSIVE HeaviestWalk(_, _, _)
\* MakeGrindDiGraph.heaviest_path from start, as the lists it may yield; r
\* is acyclic, being the reduction of an acyclic graph
HeaviestWalk(g, r, start) ==
    IF HeaviestChild(g, r, start) = {} THEN {<<start>>}
    ELSE UNION {{<<start>> \o q : q \in HeaviestWalk(g, r, v)} :
                  v \in HeaviestChild(g, r, start)}

\* list(heaviest_path(start)): the possible outcomes
HeaviestPath(g, cached, start) ==
    LET rp == ReducedProp(g, cached)
    IN IF "error" \in DOMAIN rp
       THEN {[cache |-> rp.cache, error |-> rp.error]}
       ELSE IF start \notin rp.val.n
       THEN {[cache |-> rp.cache, error |-> "NetworkXError"]}
       ELSE {[cache |-> rp.cache, val |-> q] : q \in HeaviestWalk(g, rp.val, start)}

\* NodeInfo.recursive: self._node.get("recursive", False)
Recursive(a) == IF "recursive" \in DOMAIN a THEN a["recursive"] ELSE FALSE

\* a NodeInfo.elapsed_recipe that never looks at the recursive flag
RawElapsedRecipe(a) == ElapsedRecipeProp(a, FreshCache).elapsed_recipe

\* NodeInfo.elapsed_recipe.  self._node.recursive goes through
\* Node.__getattr__, which raises AttributeError for a node without the
\* attribute; an AttributeError out of a property makes Python call
\* NodeInfo.__getattr__("elapsed_recipe"), which reads the raw node's.
InfoElapsedRecipe(a) ==
    IF "recursive" \in DOMAIN a
    THEN IF a["recursive"] = TRUE THEN Td(0)
         ELSE ElapsedRecipeProp(a, FreshCache).elapsed_recipe
    ELSE ElapsedRecipeProp(a, FreshCache).elapsed_recipe

RECURSIVE Sum(_, _)
\* sum(f[k] for k in ks)
Sum(f, ks) ==
    IF ks = {} THEN 0
    ELSE LET k == CHOOSE x \in ks : TRUE
         IN f[k] + Sum(f, ks \ {k})

\* an aggregate that adds up every target's own recipe time
GraphElapsedRecipeAll(g) ==
    Td(Sum([k \in DOMAIN g.n |-> RawElapsedRecipe(g.n[k]).d], DOMAIN g.n))

\* TargetDiGraph.elapsed_recipe (BuildDiGraph.elapsed_recipe returns it)
GraphElapsedRecipe(g) ==
    Td(Sum([k \in DOMAIN g.n |-> InfoElapsedRecipe(g.n[k]).d],
           {k \in DOMAIN g.n : ~Recursive(g.n[k])}))

\* --------------------------------------------------------- the actions
Graphs == [b |-> [n |-> pnodes, e |-> pedges], t |-> [n |-> tnodes, e |-> tedges]]

SetGraphs(G) ==
    /\ pnodes' = G.b.n
    /\ pedges' = G.b.e
    /\ tnodes' = G.t.n
    /\ tedges' = G.t.e

\* what a mutation of the graph does to _reduced and _entry: add_node and
\* add_edge are networkx's own, and nothing calls MakeGrindDiGraph.clear
CachesAfterMutation == UNCHANGED <<t_reduced, t_entry, p_entry>>

\* BuildDiGraph.add_nodes_from_build(record of process p), records handed
\* over one by one
AddProcess(p) ==
    /\ ingest = "flat"
    /\ p \in DOMAIN trace
    /\ \A i \in 1..Len(order) : order[i] # p
    /\ SetGraphs(AddNodesFromBuild(Graphs, trace[p]))
    /\ order' = Append(order, p)
    /\ CachesAfterMutation
    /\ ret' = [op |-> "add_nodes_from_build"]
    /\ UNCHANGED <<trace, ingest>>
    /\ UNCHANGED nodeVars

RECURSIVE Nested(_, _)
\* the record of process p with the records of the sub-builds it spawned
\* nested inside it
Nested(tr, p) ==
    DictSet(tr[p], "sub",
            {Nested(tr, q) : q \in {c \in DOMAIN tr : "parent" \in DOMAIN tr[c]
                                                      /\ tr[c]["parent"]["pid"] = p}})

\* BuildDiGraph.from_build(build): a new graph, add_nodes_from_build(build);
\* here build is the root record with every sub-build nested in it
FromBuildNested ==
    /\ ingest = "flat"
    /\ order = <<>>
    /\ SetGraphs(AddNodesFromBuild(EmptyGraphs, Nested(trace, 1)))
    /\ ingest' = "nested"
    /\ order' = <<1>>
    /\ CachesAfterMutation
    /\ ret' = [op |-> "from_build"]
    /\ UNCHANGED <<trace>>
    /\ UNCHANGED nodeVars

\* graph.targets.reduced
ReadReduced ==
    LET rp == ReducedProp(Graphs.t, t_reduced)
    IN /\ t_reduced' = rp.cache
       /\ ret' = [x \in DOMAIN rp \ {"cache"} |-> rp[x]] @@ [op |-> "reduced"]
       /\ UNCHANGED <<trace, order, ingest, pnodes, pedges, tnodes, tedges, t_entry, p_entry>>
       /\ UNCHANGED nodeVars

\* graph.targets.entry
ReadTargetEntry ==
    \E o \in EntryProp(Graphs.t, t_entry, TargetRequired) :
       /\ t_entry' = o.cache
       /\ ret' = [x \in DOMAIN o \ {"cache"} |-> o[x]] @@ [op |-> "targets.entry"]
       /\ UNCHANGED <<trace, order, ingest, pnodes, pedges, tnodes, tedges, t_reduced, p_entry>>
       /\ UNCHANGED nodeVars

\* graph.entry
ReadBuildEntry ==
    \E o \in EntryProp(Graphs.b, p_entry, BuildRequired) :
       /\ p_entry' = o.cache
       /\ ret' = [x \in DOMAIN o \ {"cache"} |-> o[x]] @@ [op |-> "entry"]
       /\ UNCHANGED <<trace, order, ingest, pnodes, pedges, tnodes, tedges, t_reduced, t_entry>>
       /\ UNCHANGED nodeVars

\* list(graph.targets.heaviest_path(start))
ReadHeaviestPath(start) ==
    /\ start \in DOMAIN tnodes
    /\ \E o \in HeaviestPath(Graphs.t, t_reduced, start) :
          /\ t_reduced' = o.cache
          /\ ret' = [x \in DOMAIN o \ {"cache"} |-> o[x]]
                       @@ [op |-> "heaviest_path", start |-> start]
    /\ UNCHANGED <<trace, order, ingest, pnodes, pedges, tnodes, tedges, t_entry, p_entry>>
    /\ UNCHANGED nodeVars

\* graph.elapsed_recipe
ReadGraphElapsedRecipe ==
    /\ ret' = [op |-> "elapsed_recipe", val |-> GraphElapsedRecipe(Graphs.t)]
    /\ UNCHANGED <<trace, order, ingest, pnodes, pedges, tnodes, tedges,
                   t_reduced, t_entry, p_entry>>
    /\ UNCHANGED nodeVars

\* graph.targets.info(key).elapsed_recipe
ReadInfoElapsedRecipe(key) ==
    /\ key \in DOMAIN tnodes
    /\ ret' = [op |-> "info.elapsed_recipe", key |-> key,
               val |-> InfoElapsedRecipe(tnodes[key])]
    /\ UNCHANGED <<trace, order, ingest, pnodes, pedges, tnodes, tedges,
                   t_reduced, t_entry, p_entry>>
    /\ UNCHANGED nodeVars

TargetKeys == Pids \X {"a", "b", "c"}

NodeInit ==
    /\ attrib = EmptyDict
    /\ cache = FreshCache
    /\ nret = [op |-> "init"]
    /\ dropped = NoneV

GraphInit(tr) ==
    /\ trace = tr
    /\ order = <<>>
    /\ ingest = "flat"
    /\ pnodes = EmptyDict
    /\ pedges = {}
    /\ tnodes = EmptyDict
    /\ tedges = {}
    /\ t_reduced = NoneV
    /\ t_entry = NoneV
    /\ p_entry = NoneV
    /\ ret = [op |-> "init"]

InitNode == NodeInit /\ GraphInit(EmptyDict)

NextNode ==
    \/ \E k \in StampKeys, v \in Times \cup {Null} : SetItem(k, v)
    \/ \E k \in StampKeys : DelItem(k)
    \/ \E k \in StampKeys : ReadStamp(k)
    \/ ReadElapsed
    \/ ReadElapsedRecipe

SpecNode == InitNode /\ [][NextNode]_vars

\* every operation, reads and ingestion interleaved
Init == NodeInit /\ \E tr \in TracesSmall : GraphInit(tr)

Next ==
    \/ \E p \in Pids : AddProcess(p)
    \/ FromBuildNested
    \/ ReadReduced
    \/ ReadTargetEntry
    \/ ReadBuildEntry
    \/ \E key \in TargetKeys : ReadHeaviestPath(key)
    \/ ReadGraphElapsedRecipe
    \/ \E key \in TargetKeys : ReadInfoElapsedRecipe(key)

Spec == Init /\ [][Next]_vars

\* ingestion, and the reads that touch no cache of the graph
InitIngest == NodeInit /\ \E tr \in Traces : GraphInit(tr)

NextIngest ==
    \/ \E p \in Pids : AddProcess(p)
    \/ FromBuildNested
    \/ ReadGraphElapsedRecipe
    \/ \E key \in TargetKeys : ReadInfoElapsedRecipe(key)

SpecIngest == InitIngest /\ [][NextIngest]_vars

\* ingestion first, queries after: no record is added once a read was made
InitQuery == NodeInit /\ \E tr \in TracesQuery \cup TracesThree : GraphInit(tr)

Ingesting == ret.op \in {"init", "add_nodes_from_build"}

NextQuery ==
    \/ Ingesting /\ \E p \in Pids : AddProcess(p)
    \/ ReadReduced
    \/ \E key \in TargetKeys : ReadHeaviestPath(key)

SpecQuery == InitQuery /\ [][NextQuery]_vars

\* -------------------------------------------------------------- claims
RECURSIVE IngestInOrder(_, _, _)
\* the graphs after the records of the processes in S were added to G in
\* ascending order of pid
IngestInOrder(G, tr, S) ==
    IF S = {} THEN G
    ELSE LET p == CHOOSE x \in S : \A y \in S : x <= y
         IN IngestInOrder(AddNodesFromBuild(G, tr[p]), tr, S \ {p})

Ingested == {order[i] : i \in 1..Len(order)}

\* the target of the parent process that invoked the process of record r
InvokingTarget(r) == <<r["parent"]["pid"], r["parent"]["target"]>>

\* a target's recipe time as the specification defines it
RecipeTime(a) ==
    IF Get(a, "end") # Null /\ Get(a, "recipe") # Null THEN a["end"] - a["recipe"] ELSE 0

Flagged(a) == "recursive" \in DOMAIN a /\ a["recursive"] = TRUE

\* C1: a read of reducedView returns the transitive reduction of the target
\* graph as it is when read, and a read of entryPoint / entryProcess returns
\* an entry of the graph as it is when read, whatever was read before.
C1_ReadsAreCurrent ==
    /\ (ret.op = "reduced" /\ "val" \in DOMAIN ret)
          => ret.val = TransitiveReduction(Graphs.t)
    /\ (ret.op = "targets.entry" /\ "key" \in DOMAIN ret)
          => \E o \in EntryProp(Graphs.t, NoneV, TargetRequired) :
                "key" \in DOMAIN o /\ o.key = ret.key
    /\ (ret.op = "entry" /\ "key" \in DOMAIN ret)
          => \E o \in EntryProp(Graphs.b, NoneV, BuildRequired) :
                "key" \in DOMAIN o /\ o.key = ret.key

\* C2: the trace handed over as one nested root record gives the graphs
\* that the same trace gives as a flat stream of records: the same process
\* keys and parent -> child edges, the same target nodes (attributes and
\* recursive flags) and dependency edges.
C2_NestedEqualsFlat ==
    ingest = "nested" =>
        LET F == IngestInOrder(EmptyGraphs, trace, DOMAIN trace)
        IN /\ DOMAIN pnodes = DOMAIN F.b.n
           /\ pedges = F.b.e
           /\ tnodes = F.t.n
           /\ tedges = F.t.e

\* C3: whatever the order in which records were added, both graphs are the
\* graphs that adding the same records in ascending order of pid gives:
\* the same node keys, node attributes, edges and recursive flags.
C3_OrderIndependent ==
    ingest = "flat" => Graphs = IngestInOrder(EmptyGraphs, trace, Ingested)

\* a sub-build was added before the process that invoked it, and the
\* invoking target, declared by the parent's record, is flagged recursive
C3_Witness ==
    /\ ingest = "flat"
    /\ Len(order) >= 2
    /\ order[1] > order[2]
    /\ "parent" \in DOMAIN trace[order[1]]
    /\ trace[order[1]]["parent"]["pid"] = order[2]
    /\ InvokingTarget(trace[order[1]]) \in DOMAIN tnodes
    /\ Flagged(tnodes[InvokingTarget(trace[order[1]])])
    /\ "start" \in DOMAIN tnodes[InvokingTarget(trace[order[1]])]

\* C4: for every ingested record that names a parent, the invoking target
\* is flagged recursive and has an edge to each entry target of the child.
C4_InvokingTargetFlagged ==
    \A p \in Ingested :
        "parent" \in DOMAIN trace[p] =>
            /\ InvokingTarget(trace[p]) \in DOMAIN tnodes
            /\ Flagged(tnodes[InvokingTarget(trace[p])])
            /\ \A e \in trace[p]["entry"] :
                  <<InvokingTarget(trace[p]), <<p, e>>>> \in tedges

\* what add_parent_edges does establish: the flag and the edges of every
\* ingested child record that has an entry target
C4_FlaggedWhenEntry ==
    \A p \in Ingested :
        ("parent" \in DOMAIN trace[p] /\ trace[p]["entry"] # {}) =>
            /\ InvokingTarget(trace[p]) \in DOMAIN tnodes
            /\ Flagged(tnodes[InvokingTarget(trace[p])])
            /\ \A e \in trace[p]["entry"] :
                  <<InvokingTarget(trace[p]), <<p, e>>>> \in tedges

\* C5: the aggregate elapsed_recipe is the sum of the recipe time
\* (end - recipe start, or zero) of the targets not flagged recursive.
C5_AggregateIsSum ==
    ret.op = "elapsed_recipe" =>
        ret.val = Td(Sum([k \in DOMAIN tnodes |-> RecipeTime(tnodes[k])],
                         {k \in DOMAIN tnodes : ~Flagged(tnodes[k])}))

\* the aggregate read over a graph in which a flagged target has a recipe
\* time of its own and an entry target of the sub-build it invoked has one
\* that counts
C5_Witness ==
    /\ ret.op = "elapsed_recipe"
    /\ ret.val.d > 0
    /\ \E p \in Ingested :
          /\ "parent" \in DOMAIN trace[p]
          /\ InvokingTarget(trace[p]) \in DOMAIN tnodes
          /\ Flagged(tnodes[InvokingTarget(trace[p])])
          /\ RecipeTime(tnodes[InvokingTarget(trace[p])]) > 0
          /\ \E e \in trace[p]["entry"] :
                /\ ~Flagged(tnodes[<<p, e>>])
                /\ RecipeTime(tnodes[<<p, e>>]) > 0

\* C6: the Info view's elapsed_recipe of a target is zero when the target
\* is flagged recursive and the raw node's recipe time otherwise, also
\* when the target has no recursive attribute.
C6_InfoElapsedRecipe ==
    ret.op = "info.elapsed_recipe" =>
        ret.val = IF Flagged(tnodes[ret.key]) THEN Td(0)
                  ELSE Td(RecipeTime(tnodes[ret.key]))

\* the Info view of a flagged target whose own recipe time is not zero
C6_Witness ==
    /\ ret.op = "info.elapsed_recipe"
    /\ Flagged(tnodes[ret.key])
    /\ RecipeTime(tnodes[ret.key]) > 0
    /\ ret.val = Td(0)

\* the Info view of a target with no recursive attribute and a recipe time
C6_WitnessNoAttribute ==
    /\ ret.op = "info.elapsed_recipe"
    /\ "recursive" \notin DOMAIN tnodes[ret.key]
    /\ ret.val.d > 0

\* the successors of u in the transitive reduction: the dependencies of u
\* that no path of two or more edges from u leads to
ReducedSucc(u) ==
    {v \in Succ(tedges, u) :
        ~\E w \in Succ(tedges, u) \ {v} : v \in Reach(tedges, {w})}

\* C8: on an acyclic target graph heaviest_path ends with a list that
\* starts with the start node, has no key twice, ends at a node without
\* successor in the reduced graph, and whose every step goes to a successor
\* in the reduced graph of no less elapsed time than any other.
C8_HeaviestPath ==
    (ret.op = "heaviest_path" /\ IsDAG(Graphs.t)) =>
        /\ "val" \in DOMAIN ret
        /\ Len(ret.val) >= 1
        /\ ret.val[1] = ret.start
        /\ \A i, j \in 1..Len(ret.val) : i # j => ret.val[i] # ret.val[j]
        /\ ReducedSucc(ret.val[Len(ret.val)]) = {}
        /\ \A i \in 1..(Len(ret.val) - 1) :
              /\ ret.val[i + 1] \in ReducedSucc(ret.val[i])
              /\ \A w \in ReducedSucc(ret.val[i]) :
                    ElapsedOf(tnodes[ret.val[i + 1]]) >= ElapsedOf(tnodes[w])

\* a path of three targets whose start also depends directly on the last,
\* which took longer than the second: the reduction decides the first step
C8_Witness ==
    /\ ret.op = "heaviest_path"
    /\ "val" \in DOMAIN ret
    /\ Len(ret.val) = 3
    /\ <<ret.val[1], ret.val[3]>> \in tedges
    /\ ElapsedOf(tnodes[ret.val[3]]) > ElapsedOf(tnodes[ret.val[2]])

\* what heaviest_path does establish: the walk is the heaviest path of the
\* graph whenever the reduced graph it walked (the one _reduced holds after
\* the call) is the reduction of the graph as it is
C8_HeaviestPathOfCachedReduction ==
    (ret.op = "heaviest_path" /\ IsDAG(Graphs.t)
        /\ t_reduced = TransitiveReduction(Graphs.t)) =>
        /\ "val" \in DOMAIN ret
        /\ ret.val[1] = ret.start
        /\ \A i, j \in 1..Len(ret.val) : i # j => ret.val[i] # ret.val[j]
        /\ ReducedSucc(ret.val[Len(ret.val)]) = {}
        /\ \A i \in 1..(Len(ret.val) - 1) :
              /\ ret.val[i + 1] \in ReducedSucc(ret.val[i])
              /\ \A w \in ReducedSucc(ret.val[i]) :
                    ElapsedOf(tnodes[ret.val[i + 1]]) >= ElapsedOf(tnodes[w])

\* heaviest_path walked a reduced graph memoised before the last record was
\* added, on a target graph that is acyclic
C8_StaleWalk ==
    /\ ret.op = "heaviest_path"
    /\ IsDAG(Graphs.t)
    /\ t_reduced # NoneV
    /\ t_reduced # TransitiveReduction(Graphs.t)

\* C9: entry returns a valid node none of whose ancestors is valid, and
\* fails with EntryPointNotFound when the graph has no valid node.
C9_EntryOrNotFound ==
    /\ ret.op = "entry" =>
          IF \E k \in DOMAIN pnodes : Valid(pnodes[k], BuildRequired)
          THEN /\ "key" \in DOMAIN ret
               /\ Valid(pnodes[ret.key], BuildRequired)
               /\ \A u \in Ancestors(pedges, ret.key) : ~Valid(pnodes[u], BuildRequired)
          ELSE "error" \in DOMAIN ret /\ ret.error = "EntryPointNotFound"
    /\ ret.op = "targets.entry" =>
          IF \E k \in DOMAIN tnodes : Valid(tnodes[k], TargetRequired)
          THEN /\ "key" \in DOMAIN ret
               /\ Valid(tnodes[ret.key], TargetRequired)
               /\ \A u \in Ancestors(tedges, ret.key) : ~Valid(tnodes[u], TargetRequired)
          ELSE "error" \in DOMAIN ret /\ ret.error = "EntryPointNotFound"

\* C10: the target graph is acyclic in every state ingestion reaches.
C10_TargetsAcyclic == IsDAG(Graphs.t)

\* C7: every read of elapsed returns end - start of the attributes the node
\* holds at the time of the read when both are present (not null), a zero
\* duration otherwise, and it is never negative when end >= start.
C7_ElapsedIsCurrent ==
    nret.op = "elapsed" =>
        /\ nret.val = IF Get(attrib, "end") # Null /\ Get(attrib, "start") # Null
                      THEN Td(attrib["end"] - attrib["start"])
                      ELSE Td(0)
        /\ (/\ Get(attrib, "end") # Null
            /\ Get(attrib, "start") # Null
            /\ attrib["end"] >= attrib["start"]) => nret.val.d >= 0

\* an elapsed read that returns another duration than the one memoised by
\* an earlier read and discarded by a write in between
C7_Witness ==
    /\ nret.op = "elapsed"
    /\ dropped \notin {NoneV, nret.val}
    /\ nret.val = Td(MaxTime)

\* ------------------------------------------------------------- paths
\* A path is [abs, up, parts]: an absolute path /p1/.../pn, or a relative
\* one of `up` leading ".." and then its parts; "." is RelDot.
AbsPath(parts) == [abs |-> TRUE, up |-> 0, parts |-> parts]
RelPathOf(up, parts) == [abs |-> FALSE, up |-> up, parts |-> parts]
RelDot == RelPathOf(0, <<>>)

\* the directories of the records, as paths
PathOfDir(d) == IF d = "/src" THEN AbsPath(<<"src">>) ELSE AbsPath(<<"src", "sub">>)

\* p is a leading part of q
IsPrefix(p, q) == Len(p) <= Len(q) /\ SubSeq(q, 1, Len(p)) = p

RECURSIVE CommonLen(_, _)
\* the number of leading components two absolute paths share
CommonLen(p, q) ==
    IF p = <<>> \/ q = <<>> \/ Head(p) # Head(q) THEN 0
    ELSE 1 + CommonLen(Tail(p), Tail(q))

\* os.path.relpath(path, start), both absolute
OsRelpath(path, start) ==
    LET i == CommonLen(path.parts, start.parts)
    IN RelPathOf(Len(start.parts) - i, SubSeq(path.parts, i + 1, Len(path.parts)))

\* os.path.join(a, b): an absolute b replaces a
OsJoin(a, b) == IF b.abs THEN b ELSE AbsPath(a.parts \o b.parts)

\* BuildDiGraph.relpath(path), prefix being self.prefix
GraphRelpath(prefix, path) ==
    LET p1 == IF path # NoneV /\ path.abs THEN OsRelpath(path, prefix) ELSE path
    IN IF p1 = RelDot THEN RelPathOf(0, <<prefix.parts[Len(prefix.parts)]>>) ELSE p1

\* TargetNode.path: directory joined with file, when the node has both
TargetPath(a) ==
    IF "file" \in DOMAIN a /\ "directory" \in DOMAIN a
    THEN OsJoin(PathOfDir(a["directory"]), RelPathOf(0, <<a["file"]>>))
    ELSE NoneV

\* util.resolve_path(graph, path) run in the working directory cwd; the
\* character-wise os.path.commonprefix is the component-wise one for the
\* directory names of the model
ResolvePath(prefix, path, cwd) ==
    LET abs_path == IF path.abs THEN path ELSE AbsPath(cwd \o path.parts)
    IN GraphRelpath(prefix,
                    IF IsPrefix(prefix.parts, abs_path.parts) THEN abs_path
                    ELSE OsJoin(prefix, path))

\* ----------------------------------------------------- util.find_target
\* an argument that is not None
Some(v) == [tag |-> "Some", v |-> v]

\* checker(node) of find_target: "yes", "no", or the AttributeError that
\* Node.__getattr__ raises for data.name / data.directory / data.pid of a
\* node without the attribute; makefile is the resolved one
Checker(prefix, a, target, makefile, pid) ==
    IF target # NoneV /\ "name" \notin DOMAIN a THEN "AttributeError"
    ELSE IF target # NoneV /\ a["name"] # target.v THEN "no"
    ELSE IF makefile # NoneV /\ GraphRelpath(prefix, TargetPath(a)) # makefile
            /\ "directory" \notin DOMAIN a THEN "AttributeError"
    ELSE IF makefile # NoneV /\ GraphRelpath(prefix, TargetPath(a)) # makefile
            /\ GraphRelpath(prefix, PathOfDir(a["directory"])) # makefile THEN "no"
    ELSE IF pid # NoneV /\ "pid" \notin DOMAIN a THEN "AttributeError"
    ELSE IF pid # NoneV /\ a["pid"] # pid.v THEN "no"
    ELSE "yes"

\* sorted(nodes, key=lambda x: x[1].elapsed): ascending; nodes of equal
\* elapsed time keep the order the graph holds them in, any order here
SortedByElapsed(g, ks) ==
    {q \in Perms(ks) :
        \A i, j \in 1..Len(q) : i < j => ElapsedOf(g.n[q[i]]) <= ElapsedOf(g.n[q[j]])}

\* the values the message of line 76-83 is put together from
NotFoundMsg(target, makefile, pid) ==
    [k \in {x \in {"target", "makefile", "pid"} :
               \/ x = "target" /\ target # NoneV
               \/ x = "makefile" /\ makefile # NoneV
               \/ x = "pid" /\ pid # NoneV} |->
        IF k = "target" THEN target.v ELSE IF k = "makefile" THEN makefile ELSE pid.v]

\* find_target once the filters are there; prefix and makefile are NoneV
\* when no makefile was given
FindTargetFiltered(G, prefix, target, makefile, pid) ==
    LET verdict == [k \in DOMAIN G.t.n |-> Checker(prefix, G.t.n[k], target, makefile, pid)]
        nodes == {k \in DOMAIN G.t.n : verdict[k] = "yes"}
    IN IF \E k \in DOMAIN G.t.n : verdict[k] = "AttributeError"
       THEN {[error |-> "AttributeError"]}
       ELSE IF nodes = {}
       THEN {[error |-> "TargetNotFoundError", msg |-> NotFoundMsg(target, makefile, pid)]}
       ELSE {[val |-> q] : q \in SortedByElapsed(G.t, nodes)}

\* util.find_target(graph, target, makefile, pid) run in directory cwd: the
\* possible outcomes, each with the _entry the graph is left with
FindTarget(G, cached, target, makefile, pid, cwd) ==
    IF target = NoneV /\ makefile = NoneV /\ pid = NoneV
    THEN {[cache |-> cached, error |-> "TargetNotFoundError", msg |-> "No filtering criteria"]}
    ELSE IF makefile = NoneV
    THEN {o @@ [cache |-> cached] : o \in FindTargetFiltered(G, NoneV, target, NoneV, pid)}
    ELSE UNION {
        IF "error" \in DOMAIN e THEN {[cache |-> e.cache, error |-> e.error]}
        ELSE LET prefix == PathOfDir(e.val["directory"])
             IN {o @@ [cache |-> e.cache] :
                   o \in FindTargetFiltered(G, prefix, target,
                                            ResolvePath(prefix, makefile, cwd), pid)} :
        e \in EntryProp(G.b, cached, BuildRequired)}

\* ------------------------------------------------------- util.find_path
RECURSIVE PathsFrom(_, _, _, _)
\* the simple paths from s to t that avoid the nodes of seen
PathsFrom(e, s, t, seen) ==
    IF s = t THEN {<<s>>}
    ELSE UNION {{<<s>> \o q : q \in PathsFrom(e, v, t, seen \cup {s})} :
                  v \in Succ(e, s) \ (seen \cup {s})}

\* what networkx all_simple_paths does for source = target: older releases
\* yield no path, newer ones the path [source]
Versions == {"no-path", "one-node-path"}

\* list(nxpath.all_simple_paths(g, source=s, target=t)).  A source that is
\* no node is a NodeNotFound; a target that is no node is taken for a
\* collection of targets (the characters of the key), none of them a node
AllSimplePaths(g, s, t, ver) ==
    IF s \notin DOMAIN g.n THEN [error |-> "NodeNotFound"]
    ELSE IF t \notin DOMAIN g.n THEN [val |-> {}]
    ELSE IF s = t THEN [val |-> IF ver = "no-path" THEN {} ELSE {<<s>>}]
    ELSE [val |-> PathsFrom(g.e, s, t, {})]

\* graph.targets.info(x).elapsed of the second node of a segment
SecondElapsed(g, seg) == ElapsedOf(g.n[seg[2]])

\* lines 99-113: the loop over the entry targets.  The segment kept is one
\* whose second node no later segment beats; a segment of one node makes
\* path[1] or segment[1] an IndexError as soon as there is another segment.
FirstSegment(g, entries, t, ver) ==
    LET res == [en \in entries |-> AllSimplePaths(g, en, t, ver)]
        segs == UNION {res[en].val : en \in {x \in entries : "val" \in DOMAIN res[x]}}
        missing == \E en \in entries : "error" \in DOMAIN res[en]
        short == Cardinality(segs) >= 2 /\ \E s \in segs : Len(s) = 1
    IN IF missing \/ short
       THEN (IF missing THEN {[error |-> "NodeNotFound"]} ELSE {})
            \cup (IF short THEN {[error |-> "IndexError"]} ELSE {})
       ELSE IF segs = {} THEN {[error |-> "DepChainNotFoundError"]}
       ELSE {[val |-> s] :
               s \in {x \in segs : \A y \in segs :
                         Len(x) = 1 \/ SecondElapsed(g, x) >= SecondElapsed(g, y)}}

\* lines 117-130, one waypoint: the first segment is kept without a
\* comparison; the comparison made for a second one is of a timedelta with
\* a TargetNodeInfo, which no type implements
NextSegment(g, from, t, ver) ==
    LET res == AllSimplePaths(g, from, t, ver)
    IN IF "error" \in DOMAIN res THEN {[error |-> res.error]}
       ELSE IF res.val = {} THEN {[error |-> "DepChainNotFoundError"]}
       ELSE IF Cardinality(res.val) >= 2 THEN {[error |-> "TypeError"]}
       ELSE {[val |-> s] : s \in res.val}

RECURSIVE Stitch(_, _, _, _)
\* lines 116-130: the loop over targets[1:]
Stitch(g, path, rest, ver) ==
    IF rest = <<>> THEN {[val |-> path]}
    ELSE UNION {IF "error" \in DOMAIN o THEN {o}
                ELSE Stitch(g, path \o Tail(o.val), Tail(rest), ver) :
                o \in NextSegment(g, path[Len(path)], Head(rest), ver)}

\* lines 132-134: the heaviest path from the last waypoint is appended
WithSuffix(G, tcache, path) ==
    {IF "error" \in DOMAIN h THEN [tcache |-> h.cache, error |-> h.error]
     ELSE [tcache |-> h.cache, val |-> path \o Tail(h.val)] :
     h \in HeaviestPath(G.t, tcache, path[Len(path)])}

\* lines 94-96: no waypoint, the heaviest path from the heaviest entry
\* target (max() of no entry is a ValueError, info(x) of an entry that is
\* no node a KeyError)
FromHeaviestEntry(G, tcache, entries) ==
    IF entries = {} THEN {[tcache |-> tcache, error |-> "ValueError"]}
    ELSE IF \E en \in entries : en \notin DOMAIN G.t.n
    THEN {[tcache |-> tcache, error |-> "KeyError"]}
    ELSE UNION {WithSuffix(G, tcache, <<en>>) :
                  en \in {x \in entries : \A y \in entries :
                            ElapsedOf(G.t.n[x]) >= ElapsedOf(G.t.n[y])}}

\* util.find_path(graph, targets): the possible outcomes, each with the
\* _entry of the graph and the _reduced of graph.targets it leaves
FindPath(G, pcache, tcache, targets, ver) ==
    UNION {
        IF "error" \in DOMAIN e
        THEN {[pcache |-> e.cache, tcache |-> tcache, error |-> e.error]}
        ELSE LET entries == BuildEntry(e.val)
                 paths == IF targets = <<>> THEN {}
                          ELSE UNION {IF "error" \in DOMAIN f THEN {f}
                                      ELSE Stitch(G.t, f.val, Tail(targets), ver) :
                                      f \in FirstSegment(G.t, entries, Head(targets), ver)}
                 outs == IF targets = <<>> THEN FromHeaviestEntry(G, tcache, entries)
                         ELSE UNION {IF "error" \in DOMAIN o
                                     THEN {[tcache |-> tcache, error |-> o.error]}
                                     ELSE WithSuffix(G, tcache, o.val) : o \in paths}
             IN {o @@ [pcache |-> e.cache] : o \in outs} :
        e \in EntryProp(G.b, pcache, BuildRequired)}

\* ------------------------------------------- lookups over a built graph
\* the file every declared target of a trace was read from
WithFiles(tr) ==
    [p \in DOMAIN tr |->
        [tr[p] EXCEPT !["targets"] = {DictSet(x, "file", "Makefile") : x \in tr[p]["targets"]}]]

\* traces for find_target: two processes with the makefile of every target
\* known, and one process whose two targets took every combination of times
TracesFind ==
    {WithFiles(tr) : tr \in TracesSmall}
    \cup TracesOf([names |-> Names, pids |-> 1, declared |-> {Names},
                   stamps |-> TimeProfiles, depends |-> {{}}, entry |-> {{"a"}}])

\* the filters a caller may pass
FindNames == {NoneV, Some("a"), Some("missing")}
FindMakefiles == {NoneV, AbsPath(<<"src", "sub">>), RelPathOf(0, <<"Makefile">>),
                  AbsPath(<<"other">>)}
FindPids == {NoneV, Some(1), Some(2)}
Cwds == {<<"home">>, <<"src">>}

\* records are added in ascending order of pid, and none after a lookup
AddNextProcess == Ingesting /\ AddProcess(Len(order) + 1)

\* util.find_target(graph, target, makefile, pid)
FindTargetCall(target, makefile, pid, cwd) ==
    /\ \E o \in FindTarget(Graphs, p_entry, target, makefile, pid, cwd) :
          /\ p_entry' = o.cache
          /\ ret' = [x \in DOMAIN o \ {"cache"} |-> o[x]]
                       @@ [op |-> "find_target", target |-> target,
                           makefile |-> makefile, pid |-> pid, cwd |-> cwd]
    /\ UNCHANGED <<trace, order, ingest, pnodes, pedges, tnodes, tedges, t_reduced, t_entry>>
    /\ UNCHANGED nodeVars

InitFind == NodeInit /\ \E tr \in TracesFind : GraphInit(tr)

NextFind ==
    \/ AddNextProcess
    \/ \E target \in FindNames, makefile \in FindMakefiles, pid \in FindPids :
          \E cwd \in IF makefile # NoneV /\ ~makefile.abs THEN Cwds ELSE {<<"home">>} :
             FindTargetCall(target, makefile, pid, cwd)

SpecFind == InitFind /\ [][NextFind]_vars

\* ------------------------------------------------- claims on the lookups
\* the build root: the directory of the root process
BuildRoot == PathOfDir(Directory(1))

\* a target satisfies every filter supplied (name equal, makefile equal to
\* its file or its directory, both relative to the build root, pid equal)
Matches(a, target, makefile, pid) ==
    /\ target # NoneV => ("name" \in DOMAIN a /\ a["name"] = target.v)
    /\ makefile # NoneV =>
          \/ GraphRelpath(BuildRoot, TargetPath(a)) = makefile
          \/ "directory" \in DOMAIN a
                /\ GraphRelpath(BuildRoot, PathOfDir(a["directory"])) = makefile
    /\ pid # NoneV => ("pid" \in DOMAIN a /\ a["pid"] = pid.v)

\* the keys of the targets that satisfy the filters of the last find_target
Matching ==
    LET mk == IF ret.makefile = NoneV THEN NoneV
              ELSE ResolvePath(BuildRoot, ret.makefile, ret.cwd)
    IN {k \in DOMAIN tnodes : Matches(tnodes[k], ret.target, mk, ret.pid)}

\* C11: find_target without any filter fails with an error of a kind of its
\* own (NoFilterCriteria, not the kind of a lookup that found nothing); with
\* a filter it fails with TargetNotFound exactly when no target satisfies
\* every filter, and the message then carries every filter value supplied.
C11_FindTargetErrors ==
    ret.op = "find_target" =>
        IF ret.target = NoneV /\ ret.makefile = NoneV /\ ret.pid = NoneV
        THEN "error" \in DOMAIN ret /\ ret.error # "TargetNotFoundError"
        ELSE /\ ("error" \in DOMAIN ret) <=> (Matching = {})
             /\ "error" \in DOMAIN ret =>
                   /\ ret.error = "TargetNotFoundError"
                   /\ ret.target # NoneV => ret.msg["target"] = ret.target.v
                   /\ ret.makefile # NoneV => "makefile" \in DOMAIN ret.msg
                   /\ ret.pid # NoneV => ret.msg["pid"] = ret.pid.v

\* what find_target does establish for a lookup by name and pid over a
\* graph whose every target was declared: TargetNotFoundError, with the
\* filter values, exactly when nothing matches
C11_NotFoundWhenDeclared ==
    (/\ ret.op = "find_target"
     /\ ret.makefile = NoneV
     /\ (ret.target # NoneV \/ ret.pid # NoneV)
     /\ \A k \in DOMAIN tnodes : Valid(tnodes[k], TargetRequired)) =>
        /\ ("error" \in DOMAIN ret) <=> (Matching = {})
        /\ "error" \in DOMAIN ret =>
              /\ ret.error = "TargetNotFoundError"
              /\ ret.target # NoneV => ret.msg["target"] = ret.target.v
              /\ ret.pid # NoneV => ret.msg["pid"] = ret.pid.v

\* C12: a find_target that succeeds returns the keys of the targets that
\* satisfy every filter, each once, the greatest elapsed time first.
C12_FindTargetSorted ==
    (ret.op = "find_target" /\ "val" \in DOMAIN ret) =>
        /\ {ret.val[i] : i \in 1..Len(ret.val)} = Matching
        /\ \A i, j \in 1..Len(ret.val) : i # j => ret.val[i] # ret.val[j]
        /\ \A i, j \in 1..Len(ret.val) :
              i < j => ElapsedOf(tnodes[ret.val[i]]) >= ElapsedOf(tnodes[ret.val[j]])

\* what find_target does establish: the matching keys, each once, the
\* least elapsed time first
C12_FindTargetAscending ==
    (ret.op = "find_target" /\ "val" \in DOMAIN ret) =>
        /\ {ret.val[i] : i \in 1..Len(ret.val)} = Matching
        /\ \A i, j \in 1..Len(ret.val) : i # j => ret.val[i] # ret.val[j]
        /\ \A i, j \in 1..Len(ret.val) :
              i < j => ElapsedOf(tnodes[ret.val[i]]) <= ElapsedOf(tnodes[ret.val[j]])

\* two targets found, the one that took less time first
C12_AscendingFound ==
    /\ ret.op = "find_target"
    /\ "val" \in DOMAIN ret
    /\ Len(ret.val) = 2
    /\ ElapsedOf(tnodes[ret.val[1]]) < ElapsedOf(tnodes[ret.val[2]])

\* ------------------------------------------------ paths through a build
\* traces for find_path: one process, four declared targets, one or two
\* entry targets (zz is an entry target the record declares no target for).  a depends on up to MaxDeps + 1 of b and c; b took one or
\* MaxTime seconds and depends on up to MaxDeps + 1 of c and d; c depends
\* on nothing or, closing a cycle, on a; d took one or MaxTime seconds and
\* depends on nothing or on c.
TracesPath ==
    {<<[pid |-> 1, directory |-> Directory(1), entry |-> en, targets |-> {ta, tb, tc, td}]>> :
        en \in {{"a"}, {"a", "b"}, {"a", "zz"}},
        ta \in TargetDicts([stamps |-> {AllStamps},
                            depends |-> DepSets({"b", "c"}, MaxDeps + 1)], "a"),
        tb \in TargetDicts([stamps |-> {[start |-> 0, end |-> 1], AllStamps},
                            depends |-> DepSets({"c", "d"}, MaxDeps + 1)], "b"),
        tc \in TargetDicts([stamps |-> {AllStamps}, depends |-> {{}, {"a"}}], "c"),
        td \in TargetDicts([stamps |-> {[start |-> 0, end |-> 1], AllStamps},
                            depends |-> {{}, {"c"}}], "d")}

\* the waypoint lists a caller may pass: none, one or two targets of the
\* process, or a key the graph does not hold
PathKeys == {<<1, "a">>, <<1, "b">>, <<1, "c">>, <<1, "d">>}
MissingKey == <<1, "missing">>
Waypoints ==
    {<<>>} \cup {<<k>> : k \in PathKeys \cup {MissingKey}}
    \cup {<<k1, k2>> : k1 \in PathKeys, k2 \in PathKeys \cup {MissingKey}}

\* util.find_path(graph, targets)
FindPathCall(targets, ver) ==
    /\ \E o \in FindPath(Graphs, p_entry, t_reduced, targets, ver) :
          /\ p_entry' = o.pcache
          /\ t_reduced' = o.tcache
          /\ ret' = [x \in DOMAIN o \ {"pcache", "tcache"} |-> o[x]]
                       @@ [op |-> "find_path", targets |-> targets]
    /\ UNCHANGED <<trace, order, ingest, pnodes, pedges, tnodes, tedges, t_entry>>
    /\ UNCHANGED nodeVars

InitPath == NodeInit /\ \E tr \in TracesPath : GraphInit(tr)

NextPath ==
    \/ AddNextProcess
    \/ \E targets \in Waypoints, ver \in Versions : FindPathCall(targets, ver)

SpecPath == InitPath /\ [][NextPath]_vars

\* ------------------------------------------------- claims on find_path
\* the entry targets of the build: those of the root process
EntryTargets == IF 1 \in DOMAIN pnodes THEN BuildEntry(pnodes[1]) ELSE {}

\* the simple paths of the target graph from s to t
SimplePathsOf(s, t) ==
    IF s \in DOMAIN tnodes /\ t \in DOMAIN tnodes THEN PathsFrom(tedges, s, t, {}) ELSE {}

\* the waypoints of the last find_path, and the pairs that follow one another
Wps == ret.targets
WpPairs == {<<Wps[i], Wps[i + 1]>> : i \in 1..(Len(Wps) - 1)}

\* some entry target reaches the first waypoint, and every waypoint the next
ChainExists ==
    /\ \E en \in EntryTargets : SimplePathsOf(en, Wps[1]) # {}
    /\ \A pr \in WpPairs : SimplePathsOf(pr[1], pr[2]) # {}

\* no pair of the chain is a target paired with itself (the case in which
\* networkx releases differ)
NoSelfPair ==
    /\ Wps[1] \notin EntryTargets
    /\ \A pr \in WpPairs : pr[1] # pr[2]

\* q visits the keys of ws in their order
RECURSIVE VisitsInOrder(_, _)
VisitsInOrder(q, ws) ==
    IF ws = <<>> THEN TRUE
    ELSE \E i \in 1..Len(q) :
            q[i] = Head(ws) /\ VisitsInOrder(SubSeq(q, i, Len(q)), Tail(ws))

\* C13: over a built graph find_path with waypoints fails with DependencyChainNotFound exactly
\* when no entry target reaches the first waypoint or some waypoint does not
\* reach the next one; otherwise it returns a path that starts at an entry
\* target, visits the waypoints in order, never has a key twice in a row,
\* and whose every step is an edge of the target graph.
C13_FindPathChain ==
    (ret.op = "find_path" /\ order # <<>> /\ Wps # <<>> /\ NoSelfPair) =>
        IF ChainExists
        THEN /\ "val" \in DOMAIN ret
             /\ ret.val[1] \in EntryTargets
             /\ VisitsInOrder(ret.val, Wps)
             /\ \A i \in 1..(Len(ret.val) - 1) :
                   ret.val[i] # ret.val[i + 1] /\ <<ret.val[i], ret.val[i + 1]>> \in tedges
        ELSE "error" \in DOMAIN ret /\ ret.error = "DepChainNotFoundError"

\* what find_path does establish: the statement of C13 over an acyclic
\* graph that holds every entry target, when at most one simple path leads
\* from a waypoint to the next
C13_ChainOfSinglePaths ==
    (/\ ret.op = "find_path" /\ order # <<>> /\ Wps # <<>> /\ NoSelfPair
     /\ IsDAG(Graphs.t)
     /\ EntryTargets \subseteq DOMAIN tnodes
     /\ \A pr \in WpPairs : Cardinality(SimplePathsOf(pr[1], pr[2])) <= 1) =>
        IF ChainExists
        THEN /\ "val" \in DOMAIN ret
             /\ ret.val[1] \in EntryTargets
             /\ VisitsInOrder(ret.val, Wps)
             /\ \A i \in 1..(Len(ret.val) - 1) :
                   ret.val[i] # ret.val[i + 1] /\ <<ret.val[i], ret.val[i + 1]>> \in tedges
        ELSE "error" \in DOMAIN ret /\ ret.error = "DepChainNotFoundError"

\* an entry target the graph does not hold, over an acyclic graph: the
\* lookup ends with the NodeNotFound of networkx
C13_UnknownEntry ==
    /\ ret.op = "find_path"
    /\ Wps # <<>>
    /\ IsDAG(Graphs.t)
    /\ ~(EntryTargets \subseteq DOMAIN tnodes)
    /\ "error" \in DOMAIN ret
    /\ ret.error = "NodeNotFound"

\* the simple paths from s to t whose second node took at least as long as
\* the second node of any other
BestSegments(s, t) ==
    {x \in SimplePathsOf(s, t) :
        \A y \in SimplePathsOf(s, t) : SecondElapsed(Graphs.t, x) >= SecondElapsed(Graphs.t, y)}

RECURSIVE BestStitched(_, _)
\* the paths made of a best segment for every pair of ws, from, ws[1], ...
BestStitched(from, ws) ==
    IF ws = <<>> THEN {<<from>>}
    ELSE UNION {{x \o Tail(r) : r \in BestStitched(Head(ws), Tail(ws))} :
                  x \in BestSegments(from, Head(ws))}

\* C17: over an acyclic graph that holds every entry target, when every pair
\* of the chain is connected, the path find_path
\* returns begins, pair after pair, with a simple path between the pair
\* whose second node took the greatest elapsed time of the second nodes of
\* all simple paths between the pair.
C17_GreatestSecondNode ==
    (/\ ret.op = "find_path" /\ Wps # <<>> /\ NoSelfPair
     /\ IsDAG(Graphs.t) /\ EntryTargets \subseteq DOMAIN tnodes /\ ChainExists) =>
        /\ "val" \in DOMAIN ret
        /\ \E en \in EntryTargets : \E x \in BestStitched(en, Wps) : IsPrefix(x, ret.val)

\* what find_path does establish: the statement of C17 for one waypoint
C17_FirstSegmentGreatest ==
    (/\ ret.op = "find_path" /\ Len(Wps) = 1 /\ NoSelfPair
     /\ IsDAG(Graphs.t) /\ EntryTargets \subseteq DOMAIN tnodes /\ ChainExists) =>
        /\ "val" \in DOMAIN ret
        /\ \E en \in EntryTargets : \E x \in BestStitched(en, Wps) : IsPrefix(x, ret.val)

\* two simple paths lead from the first waypoint to the second: the lookup
\* ends with a TypeError
C17_TwoPathsTypeError ==
    /\ ret.op = "find_path"
    /\ Len(Wps) = 2
    /\ IsDAG(Graphs.t)
    /\ Cardinality(SimplePathsOf(Wps[1], Wps[2])) >= 2
    /\ "error" \in DOMAIN ret
    /\ ret.error = "TypeError"

\* one waypoint that two simple paths lead to, the second one through a
\* target that took longer
C17_FirstSegmentChosen ==
    /\ ret.op = "find_path"
    /\ Len(Wps) = 1
    /\ "val" \in DOMAIN ret
    /\ \E en \in EntryTargets :
          /\ Cardinality(SimplePathsOf(en, Wps[1])) >= 2
          /\ BestSegments(en, Wps[1]) # SimplePathsOf(en, Wps[1])

\* ----------------------------------------------------------- reports.py
TrueV == [tag |-> "True"]
Unlimited == [tag |-> "unlimited"]

\* BuildNode.jobs: self.attrib["jobs"], -1 read as False, 0 as True
BuildNodeJobs(a) ==
    IF "jobs" \notin DOMAIN a THEN [error |-> "KeyError"]
    ELSE IF a["jobs"] = -1 THEN [val |-> FalseV]
    ELSE IF a["jobs"] = 0 THEN [val |-> TrueV]
    ELSE [val |-> Some(a["jobs"])]

\* `if self.graph.jobs:` over the values BuildNode.jobs returns
Truthy(v) == v # FalseV /\ v # Some(0)

\* "unlimited" if self.graph.jobs is True else self.graph.jobs
JobsEntry(v) == IF v = TrueV THEN Unlimited ELSE v

\* BuildReport.round(n / d), precision 3, in thousandths (no quotient of
\* the durations of the model lies half way between two thousandths)
Round(n, d) == (2000 * n + d) \div (2 * d)

\* the "parallel" section of a report: absent when no parallelism is
\* declared, a ZeroDivisionError when the build took no time
Parallel(jobs, total_recipe, elapsed) ==
    IF ~Truthy(jobs) THEN [val |-> EmptyDict]
    ELSE IF elapsed = 0 THEN [error |-> "ZeroDivisionError"]
    ELSE [val |-> [parallel |-> [jobs |-> JobsEntry(jobs),
                                 ratio |-> Round(total_recipe, elapsed)]]]

\* [self.graph.targets.nodes[x].name for x in self.graph.entry.entry]
EntryNames(g, a) ==
    IF "entry" \notin DOMAIN a THEN [error |-> "KeyError"]
    ELSE IF \E k \in BuildEntry(a) : k \notin DOMAIN g.n THEN [error |-> "KeyError"]
    ELSE IF \E k \in BuildEntry(a) : "name" \notin DOMAIN g.n[k] THEN [error |-> "AttributeError"]
    ELSE [val |-> {g.n[k]["name"] : k \in BuildEntry(a)}]

\* SummaryReport.__generate__ over the entry process a
SummaryOf(G, a) ==
    LET jobs == BuildNodeJobs(a)
        elapsed == ElapsedOf(a)
        recipe == GraphElapsedRecipe(G.t).d
        par == Parallel(jobs.val, recipe, elapsed)
        names == EntryNames(G.t, a)
    IN IF "error" \in DOMAIN jobs THEN [error |-> jobs.error]
       ELSE IF "error" \in DOMAIN par THEN [error |-> par.error]
       ELSE IF "error" \in DOMAIN names THEN [error |-> names.error]
       ELSE [report |-> [pid |-> a["pid"], total |-> elapsed, recipe |-> recipe,
                         directory |-> a["directory"],
                         submake |-> Cardinality(DOMAIN G.b.n),
                         targets |-> Cardinality(DOMAIN G.t.n),
                         dependencies |-> Cardinality(G.t.e),
                         entry |-> names.val] @@ par.val]

\* SummaryReport(graph).generate(): the possible outcomes, each with the
\* _entry the graph is left with
Summary(G, cached) ==
    {IF "error" \in DOMAIN e THEN [cache |-> e.cache, error |-> e.error]
     ELSE SummaryOf(G, e.val) @@ [cache |-> e.cache] :
     e \in EntryProp(G.b, cached, BuildRequired)}

\* the targets TopRecipesReport sorts: d.get("recursive", False) is false
NonRecursive(g) == {k \in DOMAIN g.n : ~Recursive(g.n[k])}

\* a sort of the targets that forgets reverse=True
SortedByRecipeAsc(g, ks) ==
    {q \in Perms(ks) :
        \A i, j \in 1..Len(q) :
            i < j => InfoElapsedRecipe(g.n[q[i]]).d <= InfoElapsedRecipe(g.n[q[j]]).d}

\* sorted(..., key=lambda d: d.elapsed_recipe, reverse=True); targets of
\* equal recipe time keep the order the graph holds them in, any order here
SortedByRecipe(g, ks) ==
    {q \in Perms(ks) :
        \A i, j \in 1..Len(q) :
            i < j => InfoElapsedRecipe(g.n[q[i]]).d >= InfoElapsedRecipe(g.n[q[j]]).d}

\* BuildReport.target_report(node) with total = self.graph.elapsed; the
\* values of the record are read in the order the record lists them
TargetReport(prefix, total, a) ==
    IF "name" \notin DOMAIN a THEN [error |-> "KeyError"]
    ELSE IF \E k \in {"directory", "pid", "line"} : k \notin DOMAIN a
    THEN [error |-> "AttributeError"]
    ELSE [val |-> [target |-> a["name"],
                   total |-> ElapsedOf(a),
                   recipe |-> InfoElapsedRecipe(a).d,
                   percent |-> [numerator |-> InfoElapsedRecipe(a).d, denominator |-> total],
                   dir |-> GraphRelpath(prefix, PathOfDir(a["directory"])),
                   pid |-> a["pid"],
                   file |-> GraphRelpath(prefix, TargetPath(a)),
                   line |-> a["line"],
                   recursive |-> Recursive(a)]]

\* targets[: self.max_entries]
Slice(q, n) == SubSeq(q, 1, IF n < Len(q) THEN n ELSE Len(q))

\* TopRecipesReport.__generate__ over the entry process a, for one order
\* the sort may leave the targets in
TopRecipesOf(G, a, q, max_entries) ==
    LET elapsed == ElapsedOf(a)
        total_recipe == Sum([k \in DOMAIN G.t.n |-> ElapsedOf(G.t.n[k])], NonRecursive(G.t))
        jobs == BuildNodeJobs(a)
        par == Parallel(jobs.val, total_recipe, elapsed)
        top == Slice(q, max_entries)
        nodes == [i \in 1..Len(top) |->
                    TargetReport(PathOfDir(a["directory"]), elapsed, G.t.n[top[i]])]
        failed == {i \in 1..Len(top) : "error" \in DOMAIN nodes[i]}
    IN IF "error" \in DOMAIN jobs THEN [error |-> jobs.error]
       ELSE IF "error" \in DOMAIN par THEN [error |-> par.error]
       ELSE IF failed # {}
       THEN [error |-> nodes[CHOOSE i \in failed : \A j \in failed : i <= j].error]
       ELSE [report |-> [total |-> elapsed, recipe |-> total_recipe,
                         targets |-> [i \in 1..Len(top) |-> nodes[i].val]] @@ par.val]

\* TopRecipesReport(graph, max_entries).generate(): the possible outcomes
TopRecipes(G, cached, max_entries) ==
    UNION {IF "error" \in DOMAIN e THEN {[cache |-> e.cache, error |-> e.error]}
           ELSE {TopRecipesOf(G, e.val, q, max_entries) @@ [cache |-> e.cache] :
                    q \in SortedByRecipe(G.t, NonRecursive(G.t))} :
           e \in EntryProp(G.b, cached, BuildRequired)}

\* ------------------------------------------------ reports over a build
\* the times of a process that took a while; a record without them reads
\* as a build of zero duration
ProcessStamps == {EmptyDict, [start |-> 0, end |-> MaxTime]}

\* the declared parallelism of a record: -1 none, 0 unlimited, n jobs; a
\* record may carry no such field
JobsFields == {EmptyDict, [jobs |-> -1], [jobs |-> 0], [jobs |-> 2]}

\* the line a target was read from, for the records that carry one
LineFields == {EmptyDict, [line |-> 1]}

\* the root records of the traces for reports: two or three declared
\* targets, a depending on b, c with or without a line
RootRecords ==
    {DictUpdate(DictUpdate([pid |-> 1, directory |-> Directory(1), entry |-> {"a"},
                            targets |-> {ta, tb} \cup tc], st), jb) :
        st \in ProcessStamps, jb \in JobsFields,
        ta \in {DictUpdate(x, [line |-> 1]) :
                  x \in TargetDicts([stamps |-> {AllStamps, [start |-> 0, recipe |-> 1, end |-> MaxTime]},
                                     depends |-> {{"b"}, {"b", "c"}}], "a")},
        tb \in {DictUpdate(x, [line |-> 1]) :
                  x \in TargetDicts([stamps |-> {AllStamps, [start |-> 0, end |-> 1]},
                                     depends |-> {{}}], "b")},
        tc \in {{}} \cup {{DictUpdate(x, ln)} :
                  x \in TargetDicts([stamps |-> TimeProfiles, depends |-> {{}}], "c"),
                  ln \in LineFields}}

\* the sub-build a target of the root may invoke
SubRecords ==
    {[pid |-> 2, directory |-> Directory(2), entry |-> {"a"},
      targets |-> {DictUpdate([name |-> "a", line |-> 1, depends |-> {}], AllStamps)},
      parent |-> [pid |-> 1, target |-> n]] : n \in {"a", "b"}}

\* traces for reports: the root alone, or with one sub-build
TracesReport ==
    {<<r>> : r \in RootRecords} \cup {<<r, s>> : r \in RootRecords, s \in SubRecords}

MaxEntries == {1, 2, 3}

\* SummaryReport(graph).generate()
SummaryCall ==
    /\ \E o \in Summary(Graphs, p_entry) :
          /\ p_entry' = o.cache
          /\ ret' = [x \in DOMAIN o \ {"cache"} |-> o[x]] @@ [op |-> "summary"]
    /\ UNCHANGED <<trace, order, ingest, pnodes, pedges, tnodes, tedges, t_reduced, t_entry>>
    /\ UNCHANGED nodeVars

\* TopRecipesReport(graph, max_entries).generate()
TopRecipesCall(max_entries) ==
    /\ \E o \in TopRecipes(Graphs, p_entry, max_entries) :
          /\ p_entry' = o.cache
          /\ ret' = [x \in DOMAIN o \ {"cache"} |-> o[x]]
                       @@ [op |-> "top_recipes", max_entries |-> max_entries]
    /\ UNCHANGED <<trace, order, ingest, pnodes, pedges, tnodes, tedges, t_reduced, t_entry>>
    /\ UNCHANGED nodeVars

InitReport == NodeInit /\ \E tr \in TracesReport : GraphInit(tr)

NextReport ==
    \/ AddNextProcess
    \/ SummaryCall
    \/ \E n \in MaxEntries : TopRecipesCall(n)

SpecReport == InitReport /\ [][NextReport]_vars

\* every record of the trace has been added
Built == Len(order) = Len(trace)

\* the entry process of the graph, once the root record has been added
EntryProcess == pnodes[1]

\* ---------------------------------------------------- claims on reports
\* the key of the target a record of a report's targets list renders
ListedKey(r) == <<r.pid, r.target>>

\* the recipe time of a target, from its timestamps: end - recipe when it
\* has both, zero otherwise or when it is flagged recursive
RecipeElapsed(k) == IF Flagged(tnodes[k]) THEN 0 ELSE RecipeTime(tnodes[k])

Min(a, b) == IF a < b THEN a ELSE b

C14_NoLineNoReport ==
    /\ ret.op = "top_recipes"
    /\ "error" \in DOMAIN ret
    /\ ret.error = "AttributeError"
    /\ "jobs" \in DOMAIN EntryProcess

\* the names the targets of the root record declare
Declared == {x["name"] : x \in trace[1]["targets"]}

\* the (target, dependency) pairs of the root record
DeclaredPairs ==
    UNION {{<<x["name"], d>> : d \in x["depends"]} : x \in trace[1]["targets"]}

\* the graphs were built from a single root record, no recursion, whose
\* dependencies all name declared targets
SingleRoot ==
    /\ Len(trace) = 1
    /\ Built
    /\ \A x \in trace[1]["targets"] : x["depends"] \subseteq Declared

\* C15: the graphs built from a single root process with no recursion whose
\* dependencies all name declared targets hold one target per declared
\* target and one dependency per distinct (target, dependency) pair, their
\* entry process is the root process, the Summary report says the same, and
\* when the targets are A and B with A depending on B the heaviest path
\* from A is [A, B].
C15_SingleRootRoundTrip ==
    SingleRoot =>
        /\ Cardinality(DOMAIN tnodes) = Cardinality(Declared)
        /\ Cardinality(tedges) = Cardinality(DeclaredPairs)
        /\ \A e \in EntryProp(Graphs.b, p_entry, BuildRequired) :
              "error" \notin DOMAIN e /\ e.key = trace[1]["pid"]
        /\ (ret.op = "summary" /\ "error" \notin DOMAIN ret) =>
              /\ ret.report.pid = trace[1]["pid"]
              /\ ret.report.targets = Cardinality(Declared)
              /\ ret.report.dependencies = Cardinality(DeclaredPairs)
        /\ (Declared = {"a", "b"} /\ DeclaredPairs = {<<"a", "b">>}) =>
              \A o \in HeaviestPath(Graphs.t, t_reduced, <<1, "a">>) :
                 "error" \notin DOMAIN o /\ o.val = <<<<1, "a">>, <<1, "b">>>>

\* the round trip of two targets, a depending on b, read through a Summary
\* report
C15_Witness ==
    /\ SingleRoot
    /\ Declared = {"a", "b"}
    /\ DeclaredPairs = {<<"a", "b">>}
    /\ ret.op = "summary"
    /\ "error" \notin DOMAIN ret
    /\ ret.report.targets = 2
    /\ ret.report.dependencies = 1

\* C16: over a valid entry process whose record carries no parallelism
\* field, the Summary report is generated, and without a parallel section.
C16_NoParallelismField ==
    (/\ ret.op = "summary"
     /\ order # <<>>
     /\ Valid(EntryProcess, BuildRequired)
     /\ "jobs" \notin DOMAIN EntryProcess) =>
        "error" \notin DOMAIN ret /\ "parallel" \notin DOMAIN ret.report

\* what the code does establish: a declared parallelism of -1 (none) gives
\* a Summary report without a parallel section
C16_DeclaredNone ==
    (/\ ret.op = "summary"
     /\ order # <<>>
     /\ "jobs" \in DOMAIN EntryProcess
     /\ EntryProcess["jobs"] = -1) =>
        "error" \notin DOMAIN ret /\ "parallel" \notin DOMAIN ret.report

\* a Summary report over a valid entry process without the field ends with
\* the KeyError of BuildNode.jobs
C16_KeyError ==
    /\ ret.op = "summary"
    /\ order # <<>>
    /\ Valid(EntryProcess, BuildRequired)
    /\ "jobs" \notin DOMAIN EntryProcess
    /\ "error" \in DOMAIN ret
    /\ ret.error = "KeyError"

RECURSIVE ListedRecipe(_)
\* the sum of the recipe-elapsed of the records of a targets list
ListedRecipe(ts) == IF ts = <<>> THEN 0 ELSE Head(ts).recipe + ListedRecipe(Tail(ts))

\* C18: the recipe total of a TopRecipes report is the sum of the
\* recipe-elapsed of the targets it lists, and its parallelism ratio, there
\* only when parallelism is declared, is that total over the build's
\* elapsed time.
C18_TotalOverListed ==
    (ret.op = "top_recipes" /\ "error" \notin DOMAIN ret) =>
        /\ ret.report.recipe = ListedRecipe(ret.report.targets)
        /\ "parallel" \in DOMAIN ret.report <=> EntryProcess["jobs"] # -1
        /\ "parallel" \in DOMAIN ret.report =>
              ret.report.parallel.ratio =
                 Round(ListedRecipe(ret.report.targets), ret.report.total)

\* what the report does total: the elapsed time, waiting included, of every
\* non-recursive target of the graph, listed or not
C18_TotalOfElapsed ==
    (ret.op = "top_recipes" /\ "error" \notin DOMAIN ret) =>
        /\ ret.report.recipe =
              Sum([k \in DOMAIN tnodes |-> ElapsedOf(tnodes[k])],
                  {k \in DOMAIN tnodes : ~Flagged(tnodes[k])})
        /\ "parallel" \in DOMAIN ret.report <=> EntryProcess["jobs"] # -1
        /\ "parallel" \in DOMAIN ret.report =>
              ret.report.parallel.ratio = Round(ret.report.recipe, ret.report.total)

\* a report that lists every non-recursive target, with parallelism
\* declared, whose total is greater than the recipe times it lists add up to
C18_TotalOverAll ==
    /\ ret.op = "top_recipes"
    /\ "error" \notin DOMAIN ret
    /\ "parallel" \in DOMAIN ret.report
    /\ Len(ret.report.targets) = Cardinality({k \in DOMAIN tnodes : ~Flagged(tnodes[k])})
    /\ ret.report.recipe > ListedRecipe(ret.report.targets)

\* a report that leaves a target out and counts its time in the total
C18_TotalCountsOmitted ==
    /\ ret.op = "top_recipes"
    /\ "error" \notin DOMAIN ret
    /\ Len(ret.report.targets) < Cardinality({k \in DOMAIN tnodes : ~Flagged(tnodes[k])})
    /\ \A i \in 1..Len(ret.report.targets) :
          ret.report.targets[i].total = ret.report.targets[i].recipe
    /\ ret.report.recipe > ListedRecipe(ret.report.targets)

====
